---- MODULE Spec2Model ----
(***************************************************************************)
(* The command server of rr_l298n_motor_solenoid_server.py: the static pin *)
(* map, the Track and Switch devices, the command interpreter               *)
(* (process_command and its two handlers) and the accept / read / process  *)
(* / respond / close loop of start_server.                                 *)
(*                                                                         *)
(* Strings are sequences of one-character strings, so that split('_'),     *)
(* startswith() and int(parts[0][-1]) are computed as Python computes      *)
(* them.  Every device method is a list of GPIO calls, executed one per    *)
(* step, so that the states between two pin writes are states of the model.*)
(*                                                                         *)
(* The GPIO daemon (pigpio) is outside the repository.  What the model     *)
(* keeps of it: a digital output latch per pin (level), the PWM duty per   *)
(* pin (duty), write() replacing a running PWM by the written level        *)
(* (pigpio: "if PWM or servo pulses are active on the GPIO they are        *)
(* switched off"), and set_PWM_dutycycle() replacing the steady level by   *)
(* the pulse train (level 0, duty as given; duty 0 is a pin held low).     *)
(***************************************************************************)
EXTENDS Integers, Sequences, FiniteSets, TLC

VARIABLES
    level,          \* pin -> 0/1: the digital output latch of each pin
    duty,           \* pin -> PWM duty cycle in effect on the pin
    current_speed,  \* track id -> Track.current_speed
    pc,             \* where the server loop is
    request,        \* what recv() delivered on the current connection
    invoked,        \* the device method process_command dispatched to
    todo,           \* GPIO calls of that method still to be issued
    op_log,         \* steps of that method already executed, in order
    success,        \* process_command's return value ("none" until it returns)
    response,       \* the statuses sent on the current connection
    pre,            \* level / duty / current_speed when the connection was accepted
    backlog,        \* connections the listening socket holds, not yet accepted
    open_conns,     \* client sockets accept() has returned and nobody has closed
    fault,          \* the call that raised on the current connection, "none" if none
    faulted,        \* an accept() or send() has raised since the server started
    bound,          \* the server socket is bound to SERVER_PORT and listens
    exit_status,    \* the status the process exited with; << >> while it runs
    client          \* a front end and the group operation it is carrying out

vars == <<level, duty, current_speed, pc, request, invoked, todo, op_log,
          success, response, pre, backlog, open_conns,
          fault, faulted, bound, exit_status, client>>

-----------------------------------------------------------------------------
(* Static configuration *)

STATUS_INDICATOR == 25
DEFAULT_SPEED == 50
MIN_SPEED == 0
MAX_SPEED == 255

TrackIds == 0..3
SwitchIds == 0..1

TRACK_CONFIG ==
    [t \in TrackIds |->
        CASE t = 0 -> [nb |-> 4,  sb |-> 5,  speed |-> 18]
          [] t = 1 -> [nb |-> 6,  sb |-> 12, speed |-> 19]
          [] t = 2 -> [nb |-> 13, sb |-> 16, speed |-> 17]
          [] t = 3 -> [nb |-> 22, sb |-> 23, speed |-> 24]]

SWITCH_CONFIG ==
    [s \in SwitchIds |->
        CASE s = 0 -> [direct |-> 13, diverge |-> 16, trigger |-> 17]
          [] s = 1 -> [direct |-> 22, diverge |-> 23, trigger |-> 24]]

TrackPins(t) == {TRACK_CONFIG[t].nb, TRACK_CONFIG[t].sb, TRACK_CONFIG[t].speed}
SwitchPins(s) == {SWITCH_CONFIG[s].direct, SWITCH_CONFIG[s].diverge,
                  SWITCH_CONFIG[s].trigger}
DirectionPins == UNION {{TRACK_CONFIG[t].nb, TRACK_CONFIG[t].sb} : t \in TrackIds}
PositionPins == UNION {{SWITCH_CONFIG[s].direct, SWITCH_CONFIG[s].diverge} : s \in SwitchIds}
Pins == UNION {TrackPins(t) : t \in TrackIds}
          \cup UNION {SwitchPins(s) : s \in SwitchIds}
          \cup {STATUS_INDICATOR}

-----------------------------------------------------------------------------
(* Strings *)

TRACK == <<"t", "r", "a", "c", "k">>
SWITCH == <<"s", "w", "i", "t", "c", "h">>
NB == <<"n", "b">>
SB == <<"s", "b">>
STOP == <<"s", "t", "o", "p">>
SPEED == <<"s", "p", "e", "e", "d">>
DIRECT == <<"d", "i", "r", "e", "c", "t">>
DIVERGE == <<"d", "i", "v", "e", "r", "g", "e">>
US == <<"_">>

\* str.split('_'): the parts between the underscores, empty parts included
RECURSIVE Split(_)
Split(s) ==
    IF \A i \in 1..Len(s) : s[i] # "_"
    THEN <<s>>
    ELSE LET i == CHOOSE k \in 1..Len(s) :
                      s[k] = "_" /\ \A j \in 1..(k - 1) : s[j] # "_"
         IN  <<SubSeq(s, 1, i - 1)>> \o Split(SubSeq(s, i + 1, Len(s)))

\* '_'.join(parts)
RECURSIVE Join(_)
Join(parts) ==
    IF Len(parts) = 0 THEN <<>>
    ELSE IF Len(parts) = 1 THEN parts[1]
    ELSE parts[1] \o US \o Join(Tail(parts))

\* str.startswith(prefix)
StartsWith(s, prefix) ==
    Len(s) >= Len(prefix) /\ SubSeq(s, 1, Len(prefix)) = prefix

DigitChars == <<"0", "1", "2", "3", "4", "5", "6", "7", "8", "9">>
IsDigit(c) == \E i \in 1..10 : DigitChars[i] = c
\* the digit read one too high
DigitValueOneBased(c) == CHOOSE i \in 1..10 : DigitChars[i] = c

\* int(c) of a one-character string that is a decimal digit
DigitValue(c) == (CHOOSE i \in 1..10 : DigitChars[i] = c) - 1

-----------------------------------------------------------------------------
(* Track and Switch: each method is the list of GPIO calls it issues *)

Instr(op, pin, val) == [op |-> op, pin |-> pin, val |-> val]

\* northbound without its write of sb
NorthboundKeepsSouth(t) ==
    << Instr("toggle", TRACK_CONFIG[t].nb, 0) >>

\* northbound as a level-set: nb = 1 whatever it was
NorthboundSets(t) ==
    << Instr("write", TRACK_CONFIG[t].nb, 1),
       Instr("write", TRACK_CONFIG[t].sb, 0) >>

\* Track.northbound: read nb, write its complement, write sb = 0
Northbound(t) ==
    << Instr("toggle", TRACK_CONFIG[t].nb, 0),
       Instr("write", TRACK_CONFIG[t].sb, 0) >>

\* southbound that reads nb where it should read sb
SouthboundReadsNorth(t) ==
    << Instr("toggle", TRACK_CONFIG[t].nb, 0),
       Instr("write", TRACK_CONFIG[t].nb, 0) >>

\* Track.southbound: read sb, write its complement, write nb = 0
Southbound(t) ==
    << Instr("toggle", TRACK_CONFIG[t].sb, 0),
       Instr("write", TRACK_CONFIG[t].nb, 0) >>

\* stop that flips nb instead of clearing it
StopToggles(t) ==
    << Instr("toggle", TRACK_CONFIG[t].nb, 0),
       Instr("write", TRACK_CONFIG[t].sb, 0) >>

\* Track.stop
Stop(t) ==
    << Instr("write", TRACK_CONFIG[t].nb, 0),
       Instr("write", TRACK_CONFIG[t].sb, 0) >>

\* set_speed with the upper limit off by one
SetSpeedOffByOne(t, speed) ==
    IF MIN_SPEED <= speed /\ speed <= MAX_SPEED + 1
    THEN << Instr("setattr", t, speed),
            Instr("pwm", TRACK_CONFIG[t].speed, speed) >>
    ELSE << >>

\* set_speed that drives the pin and forgets to record the speed
SetSpeedUnrecorded(t, speed) ==
    IF MIN_SPEED <= speed /\ speed <= MAX_SPEED
    THEN << Instr("pwm", TRACK_CONFIG[t].speed, speed) >>
    ELSE << >>

\* set_speed without the range check
SetSpeedUnchecked(t, speed) ==
    << Instr("setattr", t, speed),
       Instr("pwm", TRACK_CONFIG[t].speed, speed) >>

\* Track.set_speed: the attribute first, then the PWM call; a warning otherwise
SetSpeed(t, speed) ==
    IF MIN_SPEED <= speed /\ speed <= MAX_SPEED
    THEN << Instr("setattr", t, speed),
            Instr("pwm", TRACK_CONFIG[t].speed, speed) >>
    ELSE << >>

\* direct that pulses the trigger before it sets the position
DirectTriggersFirst(s) ==
    << Instr("write", SWITCH_CONFIG[s].trigger, 1),
       Instr("write", SWITCH_CONFIG[s].direct, 1),
       Instr("write", SWITCH_CONFIG[s].diverge, 0),
       Instr("sleep", SWITCH_CONFIG[s].trigger, 0),
       Instr("write", SWITCH_CONFIG[s].trigger, 0) >>

\* direct that does not release the diverge coil
DirectKeepsDiverge(s) ==
    << Instr("write", SWITCH_CONFIG[s].direct, 1),
       Instr("write", SWITCH_CONFIG[s].trigger, 1),
       Instr("sleep", SWITCH_CONFIG[s].trigger, 0),
       Instr("write", SWITCH_CONFIG[s].trigger, 0) >>

\* Switch.direct
Direct(s) ==
    << Instr("write", SWITCH_CONFIG[s].direct, 1),
       Instr("write", SWITCH_CONFIG[s].diverge, 0),
       Instr("write", SWITCH_CONFIG[s].trigger, 1),
       Instr("sleep", SWITCH_CONFIG[s].trigger, 0),
       Instr("write", SWITCH_CONFIG[s].trigger, 0) >>

\* diverge that returns after the sleep, the trigger still high
DivergeLatches(s) ==
    << Instr("write", SWITCH_CONFIG[s].direct, 0),
       Instr("write", SWITCH_CONFIG[s].diverge, 1),
       Instr("write", SWITCH_CONFIG[s].trigger, 1),
       Instr("sleep", SWITCH_CONFIG[s].trigger, 0) >>

\* Switch.diverge
Diverge(s) ==
    << Instr("write", SWITCH_CONFIG[s].direct, 0),
       Instr("write", SWITCH_CONFIG[s].diverge, 1),
       Instr("write", SWITCH_CONFIG[s].trigger, 1),
       Instr("sleep", SWITCH_CONFIG[s].trigger, 0),
       Instr("write", SWITCH_CONFIG[s].trigger, 0) >>

-----------------------------------------------------------------------------
(* The effect of one step of a method on the pins and the Track objects *)

\* the level a step writes: a toggle writes the complement of what it reads
Written(i, st) ==
    IF i.op = "toggle" THEN (IF st.level[i.pin] = 0 THEN 1 ELSE 0) ELSE i.val

\* rpi.write / rpi.set_PWM_dutycycle / self.current_speed = speed / time.sleep
Exec(i, st) ==
    CASE i.op \in {"toggle", "write"} ->
             [st EXCEPT !.level[i.pin] = Written(i, st), !.duty[i.pin] = 0]
      [] i.op = "pwm" ->
             [st EXCEPT !.level[i.pin] = 0, !.duty[i.pin] = i.val]
      [] i.op = "setattr" ->
             [st EXCEPT !.current_speed[i.pin] = i.val]
      [] OTHER -> st

\* a whole method, from state st
RECURSIVE Run(_, _)
Run(prog, st) ==
    IF prog = << >> THEN st ELSE Run(Tail(prog), Exec(Head(prog), st))

-----------------------------------------------------------------------------
(* The command interpreter *)

Call(dev, id, op, arg) == [dev |-> dev, id |-> id, op |-> op, arg |-> arg]
NoCall == Call("none", 0, "none", 0)

\* What a handler hands back: its return value and the method it called
Accepted(call) == [ok |-> TRUE, call |-> call]
Rejected == [ok |-> FALSE, call |-> NoCall]

\* the JSON value of a command's "speed" field
IntValue(n) == [k |-> "int", v |-> n]
TextValue == [k |-> "text", v |-> 0]
Absent == [k |-> "absent", v |-> 0]

\* get('speed') with no default
GetSpeedNoDefault(command_data) == command_data.speed

\* command_data.get('speed', DEFAULT_SPEED)
GetSpeed(command_data) ==
    IF command_data.speed = Absent THEN IntValue(DEFAULT_SPEED)
    ELSE command_data.speed

\* _handle_track_command with the nb and sb branches exchanged
HandleTrackCommandSwapped(track_id, command, command_data) ==
    IF track_id \notin TrackIds THEN Rejected
    ELSE IF command = NB THEN Accepted(Call("track", track_id, "southbound", 0))
    ELSE IF command = SB THEN Accepted(Call("track", track_id, "northbound", 0))
    ELSE IF command = STOP THEN Accepted(Call("track", track_id, "stop", 0))
    ELSE IF command = SPEED
         THEN IF GetSpeed(command_data).k = "int"
              THEN Accepted(Call("track", track_id, "set_speed",
                                 GetSpeed(command_data).v))
              ELSE Rejected
    ELSE Rejected

\* _handle_track_command; int() of a text that is no number raises, which
\* process_command catches and turns into False
HandleTrackCommand(track_id, command, command_data) ==
    IF track_id \notin TrackIds THEN Rejected
    ELSE IF command = NB THEN Accepted(Call("track", track_id, "northbound", 0))
    ELSE IF command = SB THEN Accepted(Call("track", track_id, "southbound", 0))
    ELSE IF command = STOP THEN Accepted(Call("track", track_id, "stop", 0))
    ELSE IF command = SPEED
         THEN IF GetSpeed(command_data).k = "int"
              THEN Accepted(Call("track", track_id, "set_speed",
                                 GetSpeed(command_data).v))
              ELSE Rejected
    ELSE Rejected

\* _handle_switch_command whose last branch is an else, not an elif
HandleSwitchCommandLax(switch_id, command, command_data) ==
    IF switch_id \notin SwitchIds THEN Rejected
    ELSE IF command = DIRECT THEN Accepted(Call("switch", switch_id, "direct", 0))
    ELSE Accepted(Call("switch", switch_id, "diverge", 0))

\* _handle_switch_command
HandleSwitchCommand(switch_id, command, command_data) ==
    IF switch_id \notin SwitchIds THEN Rejected
    ELSE IF command = DIRECT THEN Accepted(Call("switch", switch_id, "direct", 0))
    ELSE IF command = DIVERGE THEN Accepted(Call("switch", switch_id, "diverge", 0))
    ELSE Rejected

\* process_command up to the call of the device method.  A value that is no
\* key/value object has no get(), parts[0][-1] of an empty first part and
\* int() of a non-digit raise: all are caught and give False.
ProcessCommand(command_data) ==
    IF command_data.kind # "object" THEN Rejected
    ELSE IF ~command_data.has_action \/ command_data.action = <<>> THEN Rejected
    ELSE LET parts == Split(command_data.action)
         IN  IF Len(parts) < 2 THEN Rejected
             ELSE LET device_type == parts[1]
                      command == Join(Tail(parts))
                  IN  IF Len(device_type) = 0 THEN Rejected
                      ELSE IF ~IsDigit(device_type[Len(device_type)]) THEN Rejected
                      ELSE LET device_id == DigitValue(device_type[Len(device_type)])
                           IN  IF StartsWith(device_type, TRACK)
                               THEN HandleTrackCommand(device_id, command, command_data)
                               ELSE IF StartsWith(device_type, SWITCH)
                               THEN HandleSwitchCommand(device_id, command, command_data)
                               ELSE Rejected

\* the body of the method a call names
Program(call) ==
    CASE call.op = "northbound" -> Northbound(call.id)
      [] call.op = "southbound" -> Southbound(call.id)
      [] call.op = "stop"       -> Stop(call.id)
      [] call.op = "set_speed"  -> SetSpeed(call.id, call.arg)
      [] call.op = "direct"     -> Direct(call.id)
      [] call.op = "diverge"    -> Diverge(call.id)
      [] OTHER                  -> << >>

-----------------------------------------------------------------------------
(* What clients send *)

TrackAction(d, op) == TRACK \o <<d>> \o US \o op
SwitchAction(d, op) == SWITCH \o <<d>> \o US \o op

\* the digits clients address devices with: configured and not configured
TrackDigits == {"0", "1", "2", "3", "9"}
SwitchDigits == {"0", "1", "5"}
\* the tracks clients send speed commands to: track 0, whose speed pin is its
\* own, track 2, whose speed pin is also switch 0's trigger pin, and no track
SpeedDigits == {"0", "2", "9"}
\* how far outside MIN_SPEED..MAX_SPEED the speeds clients send go
SpeedMargin == 1

WellFormedActions ==
    {TrackAction(d, op) : d \in TrackDigits, op \in {NB, SB, STOP}}
      \cup {SwitchAction(d, op) : d \in SwitchDigits, op \in {DIRECT, DIVERGE}}

OddActions ==
    { TrackAction("0", <<"f", "o", "o">>),
      TrackAction("0", NB \o US \o <<"x">>),
      SwitchAction("0", STOP),
      <<"b", "o", "g", "u", "s">> \o US \o <<"f", "o", "o">>,
      TRACK \o <<"1", "2">> \o US \o STOP,
      TRACK \o <<"e", "r", "1">> \o US \o STOP,
      SWITCH \o <<"x", "0">> \o US \o DIRECT,
      TRACK \o US \o STOP,
      US \o NB,
      TRACK \o <<"0">>,
      << >> }

SpeedValues ==
    {IntValue(n) : n \in {MIN_SPEED, MAX_SPEED}
                           \cup {MIN_SPEED - k : k \in 1..SpeedMargin}
                           \cup {MAX_SPEED + k : k \in 1..SpeedMargin}}
      \cup {TextValue, Absent}

Object(action, speed) ==
    [kind |-> "object", has_action |-> TRUE, action |-> action, speed |-> speed]
NoRequest ==
    [kind |-> "none", has_action |-> FALSE, action |-> << >>, speed |-> Absent]
Raw(kind) ==
    [kind |-> kind, has_action |-> FALSE, action |-> << >>, speed |-> Absent]

Requests ==
    {Object(a, Absent) : a \in WellFormedActions \cup OddActions}
      \cup {Object(TrackAction(d, SPEED), v) : d \in SpeedDigits, v \in SpeedValues}
      \cup {[Object(<< >>, Absent) EXCEPT !.has_action = FALSE]}
      \cup {Raw("nonobject")}

\* recv() and json.loads() outcomes that end the connection without processing
\* a few of these requests: commands for track 0, track 2 and switch 0, a
\* command the interpreter rejects, an object without action, a JSON list
ProbeRequests ==
    { Object(TrackAction("0", NB), Absent),
      Object(TrackAction("0", SB), Absent),
      Object(TrackAction("0", STOP), Absent),
      Object(TrackAction("2", SPEED), IntValue(MAX_SPEED)),
      Object(SwitchAction("0", DIRECT), Absent),
      Object(TrackAction("0", <<"f", "o", "o">>), Absent),
      [Object(<< >>, Absent) EXCEPT !.has_action = FALSE],
      Raw("nonobject") }

\* clients that can be waiting for accept() at one time
MaxWaiting == 2

Failures == {"timeout", "nodata", "undecodable", "badjson"}

-----------------------------------------------------------------------------
(* The server loop *)

\* a front end that is doing nothing
IdleClient ==
    [cpc |-> "Idle", frontend |-> "none", op |-> "none", speed |-> 0,
     cursor |-> 0, issued |-> << >>, results |-> << >>, outcome |-> "none",
     reported |-> "none", threads |-> {}, queue |-> << >>]

Snapshot == [level |-> level, duty |-> duty, current_speed |-> current_speed]
NoSnapshot == [level |-> << >>, duty |-> << >>, current_speed |-> << >>]

\* after initialize_gpio: PWM duty 0 on every speed pin, current_speed 0, and
\* the direction / position latches as the hardware holds them (set_mode
\* and set_pull_up_down write no level); the status indicator, which no
\* command touches, is taken low
Init ==
    /\ level \in [Pins -> {0, 1}]
    /\ \A p \in Pins \ (DirectionPins \cup PositionPins) : level[p] = 0
    /\ duty = [p \in Pins |-> 0]
    /\ current_speed = [t \in TrackIds |-> 0]
    /\ pc = "Listening"
    /\ request = NoRequest
    /\ invoked = NoCall
    /\ todo = << >>
    /\ op_log = << >>
    /\ success = "none"
    /\ response = << >>
    /\ pre = NoSnapshot
    /\ backlog = 0
    /\ open_conns = 0
    /\ fault = "none"
    /\ faulted = FALSE
    /\ bound = TRUE
    /\ exit_status = << >>
    /\ client = IdleClient

\* the process as main() finds it: no GPIO initialised, no socket
Boot ==
    /\ level = [p \in Pins |-> 0]
    /\ duty = [p \in Pins |-> 0]
    /\ current_speed = [t \in TrackIds |-> 0]
    /\ pc = "Starting"
    /\ request = NoRequest
    /\ invoked = NoCall
    /\ todo = << >>
    /\ op_log = << >>
    /\ success = "none"
    /\ response = << >>
    /\ pre = NoSnapshot
    /\ backlog = 0
    /\ open_conns = 0
    /\ fault = "none"
    /\ faulted = FALSE
    /\ bound = FALSE
    /\ exit_status = << >>
    /\ client = IdleClient

\* initialize_gpio returns True: PWM duty 0 on every speed pin, the Track
\* objects created with current_speed 0
InitializeGpio ==
    /\ pc = "Starting"
    /\ duty' = [p \in Pins |->
                  IF \E t \in TrackIds : p = TRACK_CONFIG[t].speed THEN 0
                  ELSE duty[p]]
    /\ level' = [p \in Pins |->
                   IF \E t \in TrackIds : p = TRACK_CONFIG[t].speed THEN 0
                   ELSE level[p]]
    /\ current_speed' = [t \in TrackIds |-> 0]
    /\ pc' = "Initialized"
    /\ UNCHANGED <<request, invoked, todo, op_log, success, response, pre,
                   backlog, open_conns, fault, faulted, bound, exit_status,
                   client>>

\* initialize_gpio returns False: the daemon is not connected, or a pigpio
\* call raised
InitializeGpioFails ==
    /\ pc = "Starting"
    /\ pc' = "InitFailed"
    /\ UNCHANGED <<level, duty, current_speed, request, invoked, todo,
                   op_log, success, response, pre, backlog, open_conns,
                   fault, faulted, bound, exit_status, client>>

\* main goes on to serve although initialize_gpio returned False
ServeAfterInitFailure ==
    /\ pc = "InitFailed"
    /\ pc' = "Initialized"
    /\ UNCHANGED <<level, duty, current_speed, request, invoked, todo,
                   op_log, success, response, pre, backlog, open_conns,
                   fault, faulted, bound, exit_status, client>>

\* main returns 1 and sys.exit passes it on
ExitAfterInitFailure ==
    /\ pc = "InitFailed"
    /\ pc' = "Exited"
    /\ exit_status' = << 1 >>
    /\ UNCHANGED <<level, duty, current_speed, request, invoked, todo,
                   op_log, success, response, pre, backlog, open_conns,
                   fault, faulted, bound, client>>

\* start_server up to the loop: socket, bind, listen
StartServer ==
    /\ pc = "Initialized"
    /\ bound' = TRUE
    /\ pc' = "Listening"
    /\ UNCHANGED <<level, duty, current_speed, request, invoked, todo,
                   op_log, success, response, pre, backlog, open_conns,
                   fault, faulted, exit_status, client>>

\* accept() raising ends the server loop
AcceptFailsEndsLoop ==
    /\ pc = "Listening"
    /\ fault' = "accept"
    /\ faulted' = TRUE
    /\ pc' = "Exited"
    /\ UNCHANGED <<level, duty, current_speed, request, invoked, todo,
                   op_log, success, response, pre, backlog, open_conns,
                   bound, exit_status, client>>

\* accept() raises: the handler of line 289 logs it, the finally clause
\* closes a socket of an earlier iteration (or none), and the loop goes on
AcceptFails ==
    /\ pc = "Listening"
    /\ faulted' = TRUE
    /\ UNCHANGED <<level, duty, current_speed, pc, request, invoked, todo,
                   op_log, success, response, pre, backlog, open_conns,
                   fault, bound, exit_status, client>>

\* a client calls connect() while others may still wait: the listening
\* socket queues the connection, whatever the server is doing
Connect ==
    /\ backlog < MaxWaiting
    /\ backlog' = backlog + 1
    /\ UNCHANGED <<level, duty, current_speed, pc, request, invoked, todo,
                   op_log, success, response, pre, open_conns,
                   fault, faulted, bound, exit_status, client>>

\* server_socket.accept() returns the connection of a client that connects
\* while the server is blocked in accept()
Accept ==
    /\ pc = "Listening"
    /\ pc' = "Accepted"
    /\ pre' = Snapshot
    /\ open_conns' = open_conns + 1
    /\ UNCHANGED <<level, duty, current_speed, request, invoked, todo,
                   op_log, success, response, backlog,
                   fault, faulted, bound, exit_status, client>>

\* accept() issued by a second thread, whatever the first is doing
AcceptQueuedAnytime ==
    /\ backlog > 0
    /\ open_conns < 2
    /\ backlog' = backlog - 1
    /\ open_conns' = open_conns + 1
    /\ IF pc = "Listening"
       THEN pc' = "Accepted" /\ pre' = Snapshot
       ELSE UNCHANGED <<pc, pre,
                   fault, faulted, bound, exit_status, client>>
    /\ UNCHANGED <<level, duty, current_speed, request, invoked, todo,
                   op_log, success, response,
                   fault, faulted, bound, exit_status, client>>

\* server_socket.accept() returns a connection that was waiting
AcceptQueued ==
    /\ pc = "Listening"
    /\ backlog > 0
    /\ backlog' = backlog - 1
    /\ pc' = "Accepted"
    /\ pre' = Snapshot
    /\ open_conns' = open_conns + 1
    /\ UNCHANGED <<level, duty, current_speed, request, invoked, todo,
                   op_log, success, response,
                   fault, faulted, bound, exit_status, client>>

\* settimeout(10.0) and the call of recv()
StartRead ==
    /\ pc = "Accepted"
    /\ pc' = "Reading"
    /\ UNCHANGED <<level, duty, current_speed, request, invoked, todo,
                   op_log, success, response, pre, backlog, open_conns,
                   fault, faulted, bound, exit_status, client>>

\* a failed read answered with an error status
RecvFailsReplies ==
    /\ pc = "Reading"
    /\ \E f \in Failures : request' = Raw(f)
    /\ response' = Append(response, "error")
    /\ pc' = "Closed"
    /\ open_conns' = open_conns - 1
    /\ UNCHANGED <<level, duty, current_speed, invoked, todo, op_log,
                   success, pre, backlog,
                   fault, faulted, bound, exit_status, client>>

\* a failed read after which the socket is not closed
RecvFailsLeaks ==
    /\ pc = "Reading"
    /\ \E f \in Failures : request' = Raw(f)
    /\ pc' = "Closed"
    /\ UNCHANGED <<level, duty, current_speed, invoked, todo, op_log,
                   success, response, pre, backlog, open_conns,
                   fault, faulted, bound, exit_status, client>>

\* recv() times out, returns nothing, or returns bytes that do not decode or
\* parse: no processing, no response, the finally clause closes
RecvFails ==
    /\ pc = "Reading"
    /\ \E f \in Failures : request' = Raw(f)
    /\ pc' = "Closed"
    /\ open_conns' = open_conns - 1
    /\ UNCHANGED <<level, duty, current_speed, invoked, todo, op_log,
                   success, response, pre, backlog,
                   fault, faulted, bound, exit_status, client>>

\* recv() returns a JSON value; process_command parses it and either
\* returns False or enters the device method
RecvOf(requests) ==
    /\ pc = "Reading"
    /\ \E r \in requests :
         LET res == ProcessCommand(r)
         IN  /\ request' = r
             /\ invoked' = res.call
             /\ IF res.ok /\ Program(res.call) # << >>
                THEN /\ todo' = Program(res.call)
                     /\ success' = "none"
                     /\ pc' = "Processing"
                ELSE /\ todo' = << >>
                     /\ success' = IF res.ok THEN "true" ELSE "false"
                     /\ pc' = "Responding"
    /\ UNCHANGED <<level, duty, current_speed, op_log, response, pre,
                   backlog, open_conns,
                   fault, faulted, bound, exit_status, client>>

Recv == RecvOf(Requests)

\* the same with the few requests of ProbeRequests
RecvProbe == RecvOf(ProbeRequests)

\* a pigpio exception that process_command lets through: start_server's
\* handler logs it and nothing is sent
GpioFailsUnanswered ==
    /\ pc = "Processing"
    /\ todo # << >>
    /\ Head(todo).op \in {"toggle", "write", "pwm"}
    /\ todo' = << >>
    /\ success' = "false"
    /\ fault' = "gpio"
    /\ pc' = "Closed"
    /\ open_conns' = open_conns - 1
    /\ UNCHANGED <<level, duty, current_speed, request, invoked, op_log,
                   response, pre, backlog, faulted, bound, exit_status,
                   client>>

\* a pigpio call of the device method raises: process_command catches the
\* exception and returns False, the rest of the method is not executed
GpioFails ==
    /\ pc = "Processing"
    /\ todo # << >>
    /\ Head(todo).op \in {"toggle", "write", "pwm"}
    /\ todo' = << >>
    /\ success' = "false"
    /\ fault' = "gpio"
    /\ pc' = "Responding"
    /\ UNCHANGED <<level, duty, current_speed, request, invoked, op_log,
                   response, pre, backlog, open_conns, faulted, bound,
                   exit_status, client>>

\* one GPIO call of the device method; after the last one the handler
\* returns True
GpioStep ==
    /\ pc = "Processing"
    /\ todo # << >>
    /\ LET i == Head(todo)
           st == Exec(i, Snapshot)
       IN  /\ level' = st.level
           /\ duty' = st.duty
           /\ current_speed' = st.current_speed
           /\ op_log' = Append(op_log, Instr(i.op, i.pin, Written(i, Snapshot)))
    /\ todo' = Tail(todo)
    /\ IF Len(todo) = 1
       THEN pc' = "Responding" /\ success' = "true"
       ELSE pc' = "Processing" /\ success' = success
    /\ UNCHANGED <<request, invoked, response, pre, backlog, open_conns,
                   fault, faulted, bound, exit_status, client>>

\* a status sent only for a command that succeeded
RespondOnlyOnSuccess ==
    /\ pc = "Responding"
    /\ response' = IF success = "true" THEN Append(response, "success")
                                       ELSE response
    /\ pc' = "Closed"
    /\ open_conns' = open_conns - 1
    /\ UNCHANGED <<level, duty, current_speed, request, invoked, todo,
                   op_log, success, pre, backlog,
                   fault, faulted, bound, exit_status, client>>

\* the status "success" whatever process_command returned
RespondAlwaysSuccess ==
    /\ pc = "Responding"
    /\ response' = Append(response, "success")
    /\ pc' = "Closed"
    /\ open_conns' = open_conns - 1
    /\ UNCHANGED <<level, duty, current_speed, request, invoked, todo,
                   op_log, success, pre, backlog,
                   fault, faulted, bound, exit_status, client>>

\* a failed send() after which the server reads again
SendFailsRereads ==
    /\ pc = "Responding"
    /\ fault' = "send"
    /\ faulted' = TRUE
    /\ pc' = "Reading"
    /\ UNCHANGED <<level, duty, current_speed, request, invoked, todo,
                   op_log, success, response, pre, backlog, open_conns,
                   bound, exit_status, client>>

\* send() raises (the client has gone): the handler of line 289 logs it and
\* the finally clause closes the connection
SendFails ==
    /\ pc = "Responding"
    /\ fault' = "send"
    /\ faulted' = TRUE
    /\ pc' = "Closed"
    /\ open_conns' = open_conns - 1
    /\ UNCHANGED <<level, duty, current_speed, request, invoked, todo,
                   op_log, success, response, pre, backlog, bound,
                   exit_status, client>>

\* send() of the status, then the finally clause closes the connection
Respond ==
    /\ pc = "Responding"
    /\ response' = Append(response, IF success = "true" THEN "success" ELSE "error")
    /\ pc' = "Closed"
    /\ open_conns' = open_conns - 1
    /\ UNCHANGED <<level, duty, current_speed, request, invoked, todo,
                   op_log, success, pre, backlog,
                   fault, faulted, bound, exit_status, client>>

\* back to accept()
Loop ==
    /\ pc = "Closed"
    /\ pc' = "Listening"
    /\ request' = NoRequest
    /\ invoked' = NoCall
    /\ todo' = << >>
    /\ op_log' = << >>
    /\ success' = "none"
    /\ response' = << >>
    /\ pre' = NoSnapshot
    /\ fault' = "none"
    /\ UNCHANGED <<level, duty, current_speed, backlog, open_conns,
                   faulted, bound, exit_status, client>>

Next == Accept \/ StartRead \/ RecvFails \/ Recv \/ GpioStep \/ Respond \/ Loop

Spec == Init /\ [][Next]_vars

\* the same server started with every pin low
InitZero == Init /\ \A p \in Pins : level[p] = 0
SpecZero == InitZero /\ [][Next]_vars

\* the server with clients that connect at any moment, also while a
\* connection is being served
NextClients ==
    Connect \/ AcceptQueued \/ StartRead \/ RecvFails \/ Recv \/ GpioStep
        \/ Respond \/ Loop
SpecClients == InitZero /\ [][NextClients]_vars

\* the process from its start, with calls that can raise and the requests
\* of ProbeRequests
NextSystem ==
    \/ InitializeGpio \/ InitializeGpioFails \/ ExitAfterInitFailure
    \/ StartServer \/ Accept \/ AcceptFails \/ StartRead \/ RecvFails
    \/ RecvProbe \/ GpioStep \/ GpioFails \/ Respond \/ SendFails \/ Loop

\* the steps the one thread of the process takes without waiting for a
\* client: recv() returns within its timeout, every pigpio call, sleep() and
\* send() returns or raises, the loop goes on
ServerStep ==
    \/ ExitAfterInitFailure \/ StartRead \/ RecvFails \/ RecvProbe \/ GpioStep
    \/ GpioFails \/ Respond \/ SendFails \/ Loop

SpecSystem == Boot /\ [][NextSystem]_vars /\ WF_vars(ServerStep)

-----------------------------------------------------------------------------
(* The end of the server loop *)

\* initialize_gpio has returned True and main is about to call
\* start_server: the state of Init, without a server socket yet; the
\* direction latches of tracks 0 and 1 hold any levels, those of tracks 2
\* and 3 the same levels as tracks 0 and 1
Initialized ==
    /\ level \in [Pins -> {0, 1}]
    /\ \A p \in Pins \ (DirectionPins \cup PositionPins) : level[p] = 0
    /\ \A t \in {0, 1} :
         /\ level[TRACK_CONFIG[t + 2].nb] = level[TRACK_CONFIG[t].nb]
         /\ level[TRACK_CONFIG[t + 2].sb] = level[TRACK_CONFIG[t].sb]
    /\ duty = [p \in Pins |-> 0]
    /\ current_speed = [t \in TrackIds |-> 0]
    /\ pc = "Initialized"
    /\ request = NoRequest
    /\ invoked = NoCall
    /\ todo = << >>
    /\ op_log = << >>
    /\ success = "none"
    /\ response = << >>
    /\ pre = NoSnapshot
    /\ backlog = 0
    /\ open_conns = 0
    /\ fault = "none"
    /\ faulted = FALSE
    /\ bound = FALSE
    /\ exit_status = << >>
    /\ client = IdleClient

\* what cleanup does to one track: stop(), then set_speed(0)
TrackCleanup(t) == Stop(t) \o SetSpeed(t, 0)

\* a cleanup that stops the tracks and leaves their speed as it is
CleanupStopsOnly ==
    Stop(0) \o Stop(1) \o Stop(2) \o Stop(3)
        \o << Instr("write", STATUS_INDICATOR, 0) >>

\* the pigpio calls of cleanup: the tracks in the order of TRACK_CONFIG,
\* then the status indicator
CleanupProgram ==
    TrackCleanup(0) \o TrackCleanup(1) \o TrackCleanup(2) \o TrackCleanup(3)
        \o << Instr("write", STATUS_INDICATOR, 0) >>

\* where in the loop of start_server the thread can be
LoopStates ==
    {"Listening", "Accepted", "Reading", "Processing", "Responding", "Closed"}

\* socket(), setsockopt(), bind() or listen() raises: the handler of line
\* 299 logs it and the finally clause runs cleanup
BindFails ==
    /\ pc = "Initialized"
    /\ fault' = "socket"
    /\ faulted' = TRUE
    /\ todo' = CleanupProgram
    /\ pc' = "Cleanup"
    /\ UNCHANGED <<level, duty, current_speed, request, invoked, op_log,
                   success, response, pre, backlog, open_conns, bound,
                   exit_status, client>>

\* KeyboardInterrupt anywhere in the loop, also between two calls of a
\* device method: no handler of the loop catches it, the inner finally
\* clause closes the connection, the handler of line 297 logs it and the
\* outer finally clause runs cleanup, which closes the server socket first
Interrupt ==
    /\ pc \in LoopStates
    /\ open_conns' = 0
    /\ bound' = FALSE
    /\ todo' = CleanupProgram
    /\ pc' = "Cleanup"
    /\ UNCHANGED <<level, duty, current_speed, request, invoked, op_log,
                   success, response, pre, backlog, fault, faulted,
                   exit_status, client>>

\* a second KeyboardInterrupt while cleanup runs in start_server: it
\* passes `except Exception` of cleanup, main catches it (line 337) and its
\* finally clause runs cleanup from the start
InterruptCleanup ==
    /\ pc = "Cleanup"
    /\ todo' = CleanupProgram
    /\ pc' = "CleanupMain"
    /\ UNCHANGED <<level, duty, current_speed, request, invoked, op_log,
                   success, response, pre, backlog, open_conns, fault,
                   faulted, bound, exit_status, client>>

\* one pigpio call (or assignment) of cleanup
CleanupStep ==
    /\ pc \in {"Cleanup", "CleanupMain"}
    /\ todo # << >>
    /\ LET st == Exec(Head(todo), Snapshot)
       IN  /\ level' = st.level
           /\ duty' = st.duty
           /\ current_speed' = st.current_speed
    /\ todo' = Tail(todo)
    /\ UNCHANGED <<pc, request, invoked, op_log, success, response, pre,
                   backlog, open_conns, fault, faulted, bound, exit_status,
                   client>>

\* rpi.stop() ends cleanup; the cleanup that main runs after start_server
\* has returned finds the pigpio connection stopped, its first call raises
\* and is logged (line 323); main returns 0
ExitAfterCleanup ==
    /\ pc \in {"Cleanup", "CleanupMain"}
    /\ todo = << >>
    /\ pc' = "Exited"
    /\ exit_status' = << 0 >>
    /\ UNCHANGED <<level, duty, current_speed, request, invoked, todo,
                   op_log, success, response, pre, backlog, open_conns,
                   fault, faulted, bound, client>>

\* the server from start_server to the exit of the process, with the
\* requests of ProbeRequests and an interrupt at any moment
NextShutdown ==
    \/ StartServer \/ BindFails \/ Accept \/ StartRead \/ RecvFails
    \/ RecvProbe \/ GpioStep \/ Respond \/ Loop \/ Interrupt
    \/ InterruptCleanup \/ CleanupStep \/ ExitAfterCleanup

\* cleanup is straight-line code of calls that return
SpecShutdown ==
    Initialized /\ [][NextShutdown]_vars
        /\ WF_vars(CleanupStep \/ ExitAfterCleanup)

-----------------------------------------------------------------------------
(* The front ends *)

TRACK_COUNT == 4

server_vars == <<level, duty, current_speed, pc, request, invoked, todo,
                 op_log, success, response, pre, backlog, open_conns, fault,
                 faulted, bound, exit_status>>

\* what can happen to one call of send_command
Outcomes ==
    { "connect_raises",    \* connect() raises (refused, timed out)
      "send_raises",       \* sendall() raises
      "recv_timeout",      \* recv() raises socket.timeout
      "recv_raises",       \* recv() raises another OSError (connection reset)
      "closed_no_reply",   \* recv() returns no bytes: the peer has closed
      "reply_not_utf8",    \* the bytes received are not UTF-8
      "reply_not_json",    \* the text received is not JSON
      "reply_not_object",  \* JSON, but no object: it has no get()
      "reply_no_status",   \* an object without the key status
      "status_error",      \* {"status": "error"}
      "status_success" }   \* {"status": "success"}

\* the exception raised in the inner try block of send_command, "none" if none
InnerException(o) ==
    CASE o = "recv_timeout"     -> "socket.timeout"
      [] o = "recv_raises"      -> "ConnectionResetError"
      [] o = "reply_not_utf8"   -> "UnicodeDecodeError"
      [] o = "closed_no_reply"  -> "JSONDecodeError"
      [] o = "reply_not_json"   -> "JSONDecodeError"
      [] o = "reply_not_object" -> "AttributeError"
      [] OTHER                  -> "none"

\* except (socket.timeout, json.JSONDecodeError)
CaughtInside == {"socket.timeout", "JSONDecodeError"}

\* ServerConnection.send_command of the desktop front end: a bool
TkSendCommand(o) ==
    IF o \in {"connect_raises", "send_raises"} THEN FALSE
    ELSE IF InnerException(o) \in CaughtInside THEN TRUE
    ELSE IF InnerException(o) # "none" THEN FALSE
    ELSE o = "status_success"

\* ServerConnection.send_command of the browser front end: a dict
FlaskSendCommand(o) ==
    IF o \in {"connect_raises", "send_raises"}
    THEN [success |-> FALSE, message |-> "exception"]
    ELSE IF InnerException(o) \in CaughtInside
    THEN [success |-> TRUE, message |-> "Command executed"]
    ELSE IF InnerException(o) # "none"
    THEN [success |-> FALSE, message |-> "exception"]
    ELSE [success |-> o = "status_success", message |-> "Command executed"]

FrontEnds == {"flask", "tk"}
GroupOps == {"all_northbound", "all_southbound", "all_stop", "speed"}
GroupSpeeds == {MIN_SPEED, MAX_SPEED}

\* the request a group operation sends for track i
GroupCommand(op, i, speed) ==
    CASE op = "all_northbound" -> Object(TrackAction(DigitChars[i + 1], NB), Absent)
      [] op = "all_southbound" -> Object(TrackAction(DigitChars[i + 1], SB), Absent)
      [] op = "all_stop"       -> Object(TrackAction(DigitChars[i + 1], STOP), Absent)
      [] op = "speed"          -> Object(TrackAction(DigitChars[i + 1], SPEED),
                                         IntValue(speed))

\* the single commands the buttons of a front end send
SingleCommands ==
    { Object(TrackAction("1", NB), Absent),
      Object(TrackAction("3", STOP), Absent),
      Object(TrackAction("2", SPEED), IntValue(MAX_SPEED)),
      Object(SwitchAction("0", DIRECT), Absent),
      Object(SwitchAction("1", DIVERGE), Absent) }

Bool(b) == IF b THEN "true" ELSE "false"

\* a group button is pressed, or the group slider moved
StartGroup ==
    /\ client.cpc = "Idle"
    /\ \E fe \in FrontEnds, op \in GroupOps, sp \in GroupSpeeds :
         /\ op # "speed" => sp = MIN_SPEED
         /\ client' = [cpc |-> "Group", frontend |-> fe, op |-> op,
                       speed |-> sp, cursor |-> 0, issued |-> << >>,
                       results |-> << >>, outcome |-> "none",
                       reported |-> "none", threads |-> {}, queue |-> << >>]
    /\ UNCHANGED server_vars

\* handle_group_command: one turn of `for i in range(TRACK_COUNT)`
FlaskGroupSend ==
    /\ client.cpc = "Group"
    /\ client.frontend = "flask"
    /\ client.cursor < TRACK_COUNT
    /\ \E o \in Outcomes :
         client' = [client EXCEPT
                      !.issued = Append(@, GroupCommand(client.op, client.cursor,
                                                        client.speed)),
                      !.results = Append(@, FlaskSendCommand(o).success),
                      !.outcome = o,
                      !.cursor = @ + 1]
    /\ UNCHANGED server_vars

\* GroupController: all() asks the generator for the next track's result and
\* stops at the first that is False; TrackController.set_speed sends only a
\* speed in 0..255
TkGroupSend ==
    /\ client.cpc = "Group"
    /\ client.frontend = "tk"
    /\ client.cursor < TRACK_COUNT
    /\ IF client.op = "speed" /\ ~(MIN_SPEED <= client.speed /\ client.speed <= MAX_SPEED)
       THEN client' = [client EXCEPT !.results = Append(@, FALSE),
                                     !.cpc = "Done", !.reported = "false"]
       ELSE \E o \in Outcomes :
              client' = [client EXCEPT
                           !.issued = Append(@, GroupCommand(client.op, client.cursor,
                                                             client.speed)),
                           !.results = Append(@, TkSendCommand(o)),
                           !.outcome = o,
                           !.cursor = IF TkSendCommand(o) THEN @ + 1 ELSE @,
                           !.cpc = IF TkSendCommand(o) THEN @ ELSE "Done",
                           !.reported = IF TkSendCommand(o) THEN @ ELSE "false"]
    /\ UNCHANGED server_vars

\* every track has been asked: the group operation reports all(results)
GroupReturns ==
    /\ client.cpc = "Group"
    /\ client.cursor = TRACK_COUNT
    /\ client' = [client EXCEPT
                    !.cpc = "Done",
                    !.reported = Bool(\A k \in 1..Len(client.results) :
                                         client.results[k])]
    /\ UNCHANGED server_vars

\* a button for one track or one switch: one call of send_command
SingleSend ==
    /\ client.cpc = "Idle"
    /\ \E fe \in FrontEnds, c \in SingleCommands, o \in Outcomes :
         LET r == IF fe = "flask" THEN FlaskSendCommand(o).success
                  ELSE TkSendCommand(o)
         IN  client' = [cpc |-> "Done", frontend |-> fe, op |-> "single",
                        speed |-> 0, cursor |-> 0, issued |-> << c >>,
                        results |-> << r >>, outcome |-> o,
                        reported |-> Bool(r), threads |-> {}, queue |-> << >>]
    /\ UNCHANGED server_vars

\* the result is shown; the front end waits for the next event
ClientIdles ==
    /\ client.cpc = "Done"
    /\ client' = IdleClient
    /\ UNCHANGED server_vars

NextFrontEnd ==
    StartGroup \/ FlaskGroupSend \/ TkGroupSend \/ GroupReturns \/ SingleSend
        \/ ClientIdles

\* a front end on its own: what becomes of each command is any of Outcomes
SpecFrontEnd == InitZero /\ [][NextFrontEnd]_vars

-----------------------------------------------------------------------------
(* The speed slider of the desktop client and the server *)

\* the track whose slider is moved
SliderTrack == 0

\* positions of the slider (a Scale from 0 to 255)
SliderSpeeds == {MIN_SPEED, DEFAULT_SPEED, MAX_SPEED}

\* slider events in one run
MaxMoves == 3

\* on_track_speed_change: safe_command starts a daemon thread that will
\* call TrackController.set_speed, and returns to the event loop
SliderMoves ==
    /\ client.cpc \in {"Idle", "Slider"}
    /\ Len(client.issued) < MaxMoves
    /\ \E v \in SliderSpeeds :
         client' = [client EXCEPT
                      !.cpc = "Slider",
                      !.frontend = "tk",
                      !.op = "speed",
                      !.speed = v,
                      !.issued = Append(@, GroupCommand("speed", SliderTrack, v)),
                      !.threads = @ \cup {Len(client.issued) + 1}]
    /\ UNCHANGED server_vars

\* one of the started threads reaches connect() in send_command, whichever
\* the scheduler runs first, and sends its request; the connection waits
\* for accept() behind those made before it
ThreadConnects ==
    /\ backlog < MaxWaiting
    /\ \E i \in client.threads :
         client' = [client EXCEPT !.threads = @ \ {i},
                                  !.queue = Append(@, i)]
    /\ backlog' = backlog + 1
    /\ UNCHANGED <<level, duty, current_speed, pc, request, invoked, todo,
                   op_log, success, response, pre, open_conns, fault,
                   faulted, bound, exit_status>>

\* the thread whose connection accept() returned last
Served == client.queue[Len(client.queue) - backlog]

\* recv() returns the request of the connection accept() returned
RecvQueued ==
    /\ Len(client.queue) > backlog
    /\ RecvOf({client.issued[Served]})

NextSlider ==
    SliderMoves \/ ThreadConnects \/ AcceptQueued \/ StartRead \/ RecvQueued
        \/ GpioStep \/ Respond \/ Loop

\* the desktop client's slider against the server
SpecSlider == InitZero /\ [][NextSlider]_vars

-----------------------------------------------------------------------------
(* Vocabulary of the properties *)

nb_pin(t) == TRACK_CONFIG[t].nb
sb_pin(t) == TRACK_CONFIG[t].sb
speed_pin(t) == TRACK_CONFIG[t].speed

\* process_command has returned on the current connection
Finished == pc \in {"Responding", "Closed"} /\ request.kind \in {"object", "nonobject"}
\* the state a device method is called in: the request is being read
AboutToCall == pc = "Reading"
IsCommand == request.kind = "object" /\ request.has_action
OutOfRange(v) == v < MIN_SPEED \/ v > MAX_SPEED
Digit(n) == DigitChars[n + 1]

\* speeds the pure checks try on every track
InRangeProbes == {MIN_SPEED, MIN_SPEED + 1, DEFAULT_SPEED, MAX_SPEED - 1, MAX_SPEED}
OutOfRangeProbes == {MIN_SPEED - k : k \in 1..SpeedMargin}
                      \cup {MAX_SPEED + k : k \in 1..SpeedMargin}

\* the (op, pin) of each step of a method
Steps(prog) == [i \in 1..Len(prog) |-> <<prog[i].op, prog[i].pin>>]

-----------------------------------------------------------------------------
(* C1: started with every pin low, in every state between two commands no  *)
(* track has both its northbound and its southbound pin at 1.              *)
C1_AtMostOneDirection ==
    pc # "Processing" =>
        \A t \in TrackIds : ~(level[nb_pin(t)] = 1 /\ level[sb_pin(t)] = 1)

\* northbound has just taken over a track that was energized southbound
C1_Witness ==
    /\ pc = "Closed"
    /\ \E t \in TrackIds :
         /\ invoked = Call("track", t, "northbound", 0)
         /\ pre.level[sb_pin(t)] = 1
         /\ level[nb_pin(t)] = 1
         /\ level[sb_pin(t)] = 0

(* C2: a speed command for a configured track whose speed is outside       *)
(* 0..255 is answered "error".  The code answers "success".                *)
C2_OutOfRangeSpeedAnsweredError ==
    \A t \in TrackIds :
        ( /\ pc = "Closed"
          /\ IsCommand
          /\ request.action = TrackAction(Digit(t), SPEED)
          /\ request.speed.k = "int"
          /\ OutOfRange(request.speed.v) )
        => response = <<"error">>

(* C3: set_speed with a speed outside 0..255 changes no pin level, no PWM  *)
(* duty and no current_speed, and issues no PWM write: for the commands    *)
(* the server executes, and for every track and out-of-range speed from    *)
(* every state a command can start in.                                     *)
C3_OutOfRangeSetSpeedChangesNothing ==
    /\ (invoked.op = "set_speed" /\ OutOfRange(invoked.arg)) =>
            /\ pc \in {"Responding", "Closed"}
            /\ op_log = << >>
            /\ Snapshot = pre
    /\ AboutToCall =>
            \A t \in TrackIds : \A s \in OutOfRangeProbes :
                /\ SetSpeed(t, s) = << >>
                /\ Run(SetSpeed(t, s), Snapshot) = Snapshot

\* 256 was sent to a track running at 255, which still runs at 255
C3_Witness ==
    /\ pc = "Closed"
    /\ invoked.op = "set_speed"
    /\ invoked.arg = MAX_SPEED + 1
    /\ pre.current_speed[invoked.id] = MAX_SPEED
    /\ current_speed[invoked.id] = MAX_SPEED
    /\ duty[speed_pin(invoked.id)] = MAX_SPEED

(* C4: set_speed(t, s) with s in 0..255 ends with current_speed(t) = s,    *)
(* has issued exactly one PWM write, of s to speed_pin(t), and leaves both *)
(* direction pins of t as they were: for the commands the server executes, *)
(* and for every track and probed speed from every state a command can     *)
(* start in.                                                               *)
C4_InRangeSetSpeed ==
    /\ \A t \in TrackIds :
         ( /\ Finished
           /\ invoked.dev = "track" /\ invoked.id = t /\ invoked.op = "set_speed"
           /\ ~OutOfRange(invoked.arg) )
         => /\ current_speed[t] = invoked.arg
            /\ SelectSeq(op_log, LAMBDA i : i.op \in {"pwm", "write", "toggle"})
                 = << Instr("pwm", speed_pin(t), invoked.arg) >>
            /\ duty[speed_pin(t)] = invoked.arg
            /\ \A p \in {nb_pin(t), sb_pin(t)} :
                 level[p] = pre.level[p] /\ duty[p] = pre.duty[p]
    /\ AboutToCall =>
         \A t \in TrackIds : \A s \in InRangeProbes :
             LET after == Run(SetSpeed(t, s), Snapshot)
             IN  /\ after.current_speed[t] = s
                 /\ after.duty[speed_pin(t)] = s
                 /\ SelectSeq(SetSpeed(t, s), LAMBDA i : i.op # "setattr")
                      = << Instr("pwm", speed_pin(t), s) >>
                 /\ \A p \in {nb_pin(t), sb_pin(t)} :
                      after.level[p] = level[p] /\ after.duty[p] = duty[p]

\* track 2 was at speed 0 and has been set to 255 while energized northbound
C4_Witness ==
    /\ pc = "Closed"
    /\ invoked = Call("track", 2, "set_speed", MAX_SPEED)
    /\ pre.current_speed[2] = 0
    /\ current_speed[2] = MAX_SPEED
    /\ level[nb_pin(2)] = 1

(* C5, as claimed: a track<d>_speed command with no speed argument is      *)
(* answered "error" and changes no current_speed and no PWM duty.          *)
C5_MissingSpeedRejected ==
    \A n \in 0..9 :
        (pc = "Closed" /\ request = Object(TrackAction(Digit(n), SPEED), Absent))
        => /\ response = <<"error">>
           /\ current_speed = pre.current_speed
           /\ duty = pre.duty

(* C5, amended: a track<d>_speed command with no speed argument sets a     *)
(* configured track d to DEFAULT_SPEED (50) and is answered "success"; for *)
(* a d that is not configured it is answered "error" and changes nothing.  *)
C5_MissingSpeedUsesDefault ==
    \A n \in 0..9 :
        (pc = "Closed" /\ request = Object(TrackAction(Digit(n), SPEED), Absent))
        => IF n \in TrackIds
           THEN /\ response = <<"success">>
                /\ invoked = Call("track", n, "set_speed", DEFAULT_SPEED)
                /\ current_speed[n] = DEFAULT_SPEED
                /\ duty[speed_pin(n)] = DEFAULT_SPEED
           ELSE /\ response = <<"error">>
                /\ Snapshot = pre

\* track 2 ran at 255 and a speed command without argument put it at 50
C5_Witness ==
    /\ pc = "Closed"
    /\ request = Object(TrackAction("2", SPEED), Absent)
    /\ pre.current_speed[2] = MAX_SPEED
    /\ current_speed[2] = DEFAULT_SPEED
    /\ response = <<"success">>

\* the action is track<digit>_<op> / switch<digit>_<op>
TrackForm(a) ==
    Len(a) >= 7 /\ StartsWith(a, TRACK) /\ IsDigit(a[6]) /\ a[7] = "_"
SwitchForm(a) ==
    Len(a) >= 8 /\ StartsWith(a, SWITCH) /\ IsDigit(a[7]) /\ a[8] = "_"
\* ... and its device is not configured or its op is not one of the device's
UnknownDeviceOrOp(a) ==
    \/ /\ TrackForm(a)
       /\ \/ DigitValue(a[6]) \notin TrackIds
          \/ SubSeq(a, 8, Len(a)) \notin {NB, SB, STOP, SPEED}
    \/ /\ SwitchForm(a)
       /\ \/ DigitValue(a[7]) \notin SwitchIds
          \/ SubSeq(a, 9, Len(a)) \notin {DIRECT, DIVERGE}

(* C6: a command for a device id that is not configured, or with an        *)
(* operation that is not one of the device's, never reaches a device       *)
(* method, changes no pin level, PWM duty or current_speed, and is         *)
(* answered "error".                                                       *)
C6_UnknownDeviceOrOpRejected ==
    (IsCommand /\ UnknownDeviceOrOp(request.action)) =>
        /\ pc \in {"Responding", "Closed"}
        /\ invoked = NoCall
        /\ op_log = << >>
        /\ success = "false"
        /\ Snapshot = pre
        /\ pc = "Closed" => response = <<"error">>

\* track9_nb has been answered "error" while track 0 is running
C6_Witness ==
    /\ pc = "Closed"
    /\ request.action = TrackAction("9", NB)
    /\ response = <<"error">>
    /\ current_speed[0] = MAX_SPEED
    /\ level[nb_pin(0)] = 1

\* the part before the first underscore is track or switch and one digit
ExactFirstPart(a) ==
    \E n \in 0..9 : Split(a)[1] \in {TRACK \o <<Digit(n)>>, SWITCH \o <<Digit(n)>>}

(* C7: an action whose part before the first underscore is not exactly     *)
(* track or switch followed by one digit is rejected and changes nothing.  *)
(* The code accepts track12_stop, tracker1_stop and switchx0_direct.       *)
C7_OnlyExactFirstPartAccepted ==
    (pc = "Closed" /\ IsCommand /\ ~ExactFirstPart(request.action)) =>
        /\ response = <<"error">>
        /\ invoked = NoCall
        /\ Snapshot = pre

\* the integer speeds clients send
SentSpeeds == {v.v : v \in {x \in SpeedValues : x.k = "int"}}

\* the action that names each method of each configured device
NamedMethods ==
    {[action |-> TrackAction(Digit(t), NB), call |-> Call("track", t, "northbound", 0)] :
        t \in TrackIds}
      \cup {[action |-> TrackAction(Digit(t), SB), call |-> Call("track", t, "southbound", 0)] :
                t \in TrackIds}
      \cup {[action |-> TrackAction(Digit(t), STOP), call |-> Call("track", t, "stop", 0)] :
                t \in TrackIds}
      \cup {[action |-> TrackAction(Digit(t), SPEED), call |-> Call("track", t, "set_speed", v)] :
                t \in TrackIds, v \in SentSpeeds}
      \cup {[action |-> SwitchAction(Digit(n), DIRECT), call |-> Call("switch", n, "direct", 0)] :
                n \in SwitchIds}
      \cup {[action |-> SwitchAction(Digit(n), DIVERGE), call |-> Call("switch", n, "diverge", 0)] :
                n \in SwitchIds}

\* the current request is that action (a speed command with that argument)
IsFor(m) ==
    /\ IsCommand
    /\ request.action = m.action
    /\ m.call.op = "set_speed" => request.speed = IntValue(m.call.arg)

(* C8: track<t>_<op> for a configured track t and op in nb, sb, stop,      *)
(* speed (with an integer argument) calls exactly that method of Track t,  *)
(* with that argument, and switch<s>_<op> for a configured switch s and op *)
(* in direct, diverge exactly that method of Switch s: the steps executed  *)
(* are the method's, and the command is reported as accepted.              *)
C8_DispatchesToTheNamedMethod ==
    \A m \in NamedMethods :
        IsFor(m) =>
            /\ invoked = m.call
            /\ pc \in {"Processing", "Responding", "Closed"}
            /\ Steps(op_log \o todo) = Steps(Program(m.call))
            /\ pc \in {"Responding", "Closed"} => success = "true" /\ todo = << >>
            /\ pc = "Closed" => response = <<"success">>

\* track2_speed with 255 has run Track 2's set_speed(255)
C8_Witness ==
    /\ pc = "Closed"
    /\ request = Object(TrackAction("2", SPEED), IntValue(MAX_SPEED))
    /\ invoked = Call("track", 2, "set_speed", MAX_SPEED)
    /\ Len(op_log) = 2
    /\ response = <<"success">>

(* C9: a command changes no pin level, PWM duty or current_speed of a      *)
(* track or switch other than the one it addresses.  Track 2 and switch 0  *)
(* (and track 3 and switch 1) are configured on the same three pins.       *)
C9_OnlyTheAddressedDeviceChanges ==
    Finished =>
        /\ \A t \in TrackIds :
             ~(invoked.dev = "track" /\ invoked.id = t) =>
                 /\ current_speed[t] = pre.current_speed[t]
                 /\ \A p \in TrackPins(t) :
                      level[p] = pre.level[p] /\ duty[p] = pre.duty[p]
        /\ \A s \in SwitchIds :
             ~(invoked.dev = "switch" /\ invoked.id = s) =>
                 \A p \in SwitchPins(s) :
                     level[p] = pre.level[p] /\ duty[p] = pre.duty[p]

(* C10: stop(t) ends with nb_pin(t) = 0 and sb_pin(t) = 0 whatever the     *)
(* pins were, and a second stop(t) changes nothing the first one left:     *)
(* for the stop commands the server executes, and for stop applied once    *)
(* and twice to every track in every state a command can start in.        *)
C10_StopClearsAndIsIdempotent ==
    /\ \A t \in TrackIds :
         (Finished /\ invoked = Call("track", t, "stop", 0)) =>
             level[nb_pin(t)] = 0 /\ level[sb_pin(t)] = 0
    /\ AboutToCall =>
         \A t \in TrackIds :
             LET once == Run(Stop(t), Snapshot)
                 twice == Run(Stop(t), once)
             IN  /\ once.level[nb_pin(t)] = 0
                 /\ once.level[sb_pin(t)] = 0
                 /\ twice = once

\* stop has cleared a track that had both direction pins at 1
C10_Witness ==
    /\ pc = "Closed"
    /\ \E t \in TrackIds :
         /\ invoked = Call("track", t, "stop", 0)
         /\ pre.level[nb_pin(t)] = 1
         /\ pre.level[sb_pin(t)] = 1
         /\ level[nb_pin(t)] = 0
         /\ level[sb_pin(t)] = 0

-----------------------------------------------------------------------------
direct_pin(s) == SWITCH_CONFIG[s].direct
diverge_pin(s) == SWITCH_CONFIG[s].diverge
trigger_pin(s) == SWITCH_CONFIG[s].trigger
Complement(b) == IF b = 0 THEN 1 ELSE 0

WithTrigger(st, s, b) == [st EXCEPT !.level[trigger_pin(s)] = b]

(* C13: direct(s) and diverge(s) finish with trigger_pin(s) = 0 whatever   *)
(* the pins were, the trigger pin already at 1 included: for the switch    *)
(* commands the server executes, and for both methods applied to every     *)
(* switch in every state a command can start in, with the trigger at 0     *)
(* and at 1.                                                               *)
C13_TriggerEndsLow ==
    /\ \A s \in SwitchIds :
         (Finished /\ invoked.dev = "switch" /\ invoked.id = s) =>
             level[trigger_pin(s)] = 0
    /\ AboutToCall =>
         \A s \in SwitchIds : \A b \in {0, 1} :
             /\ Run(Direct(s), WithTrigger(Snapshot, s, b)).level[trigger_pin(s)] = 0
             /\ Run(Diverge(s), WithTrigger(Snapshot, s, b)).level[trigger_pin(s)] = 0

\* diverge has finished on switch 0, whose trigger pin carried track 2's PWM
C13_Witness ==
    /\ pc = "Closed"
    /\ invoked = Call("switch", 0, "diverge", 0)
    /\ pre.duty[trigger_pin(0)] = MAX_SPEED
    /\ op_log[Len(op_log)] = Instr("write", trigger_pin(0), 0)
    /\ level[trigger_pin(0)] = 0

\* the steps of a switch method: the position, then one pulse of the trigger
PositionThenPulse(s, dir, div) ==
    << Instr("write", direct_pin(s), dir),
       Instr("write", diverge_pin(s), div),
       Instr("write", trigger_pin(s), 1),
       Instr("sleep", trigger_pin(s), 0),
       Instr("write", trigger_pin(s), 0) >>

\* a write of 1 to the trigger pin of s is among the executed steps
TriggerRaised(s) ==
    \E k \in 1..Len(op_log) : op_log[k] = Instr("write", trigger_pin(s), 1)

(* C14: direct(s) ends with direct_pin = 1 and diverge_pin = 0, diverge(s) *)
(* with diverge_pin = 1 and direct_pin = 0, whatever the pins were; the    *)
(* steps executed are the two position writes, then trigger = 1, the       *)
(* sleep, trigger = 0, each once, also when the position already matches;  *)
(* and from the write of trigger = 1 on the position pins hold the         *)
(* commanded position.                                                     *)
C14_PositionThenOnePulse ==
    \A s \in SwitchIds :
        /\ (invoked = Call("switch", s, "direct", 0)) =>
               /\ op_log \o todo = PositionThenPulse(s, 1, 0)
               /\ (pc # "Processing" \/ TriggerRaised(s)) =>
                      level[direct_pin(s)] = 1 /\ level[diverge_pin(s)] = 0
               /\ pc # "Processing" => todo = << >>
        /\ (invoked = Call("switch", s, "diverge", 0)) =>
               /\ op_log \o todo = PositionThenPulse(s, 0, 1)
               /\ (pc # "Processing" \/ TriggerRaised(s)) =>
                      level[direct_pin(s)] = 0 /\ level[diverge_pin(s)] = 1
               /\ pc # "Processing" => todo = << >>

\* direct has pulsed switch 1, which was in the direct position already
C14_Witness ==
    /\ pc = "Closed"
    /\ invoked = Call("switch", 1, "direct", 0)
    /\ pre.level[direct_pin(1)] = 1
    /\ pre.level[diverge_pin(1)] = 0
    /\ op_log = PositionThenPulse(1, 1, 0)
    /\ level[direct_pin(1)] = 1
    /\ level[trigger_pin(1)] = 0

-----------------------------------------------------------------------------
StopTrack0 == Object(TrackAction("0", STOP), Absent)

(* C15: from every reachable state a connection that delivers              *)
(* {"action": "track0_stop"} is answered with exactly the status           *)
(* "success", which is sent only after stop() has run, and is closed with  *)
(* nb_pin(0) = 0 and sb_pin(0) = 0.                                        *)
C15_Track0StopSucceeds ==
    request = StopTrack0 =>
        /\ invoked = Call("track", 0, "stop", 0)
        /\ pc = "Processing" => response = << >>
        /\ pc = "Responding" => response = << >> /\ success = "true"
        /\ pc = "Closed" => response = << "success" >>
        /\ pc \in {"Responding", "Closed"} =>
               level[nb_pin(0)] = 0 /\ level[sb_pin(0)] = 0

\* track0_stop answered "success" on a track that had both direction pins high
C15_Witness ==
    /\ pc = "Closed"
    /\ request = StopTrack0
    /\ pre.level[nb_pin(0)] = 1
    /\ pre.level[sb_pin(0)] = 1
    /\ response = << "success" >>
    /\ level[nb_pin(0)] = 0
    /\ level[sb_pin(0)] = 0

(* C16: a connection on which recv() returns no data or times out gets no  *)
(* response, changes no pin level, PWM duty or current_speed, reaches no   *)
(* device method, and is closed.                                           *)
C16_SilentOnEmptyOrTimeout ==
    request.kind \in {"nodata", "timeout"} =>
        /\ pc = "Closed"
        /\ open_conns = 0
        /\ response = << >>
        /\ Snapshot = pre
        /\ invoked = NoCall
        /\ op_log = << >>

\* a read that timed out on a server whose track 0 was running
C16_Witness ==
    /\ pc = "Closed"
    /\ request = Raw("timeout")
    /\ response = << >>
    /\ level[nb_pin(0)] = 1
    /\ duty[speed_pin(0)] = MAX_SPEED
    /\ Snapshot = pre

Malformed == {"undecodable", "badjson", "nonobject"}

(* C17: a connection whose data cannot be decoded as one key/value command *)
(* object (bytes that are not UTF-8, text that is not JSON, JSON that is   *)
(* not an object) gets no response and changes no state, and is closed.    *)
C17_MalformedGetsNoResponse ==
    (request.kind \in Malformed /\ pc = "Closed") =>
        /\ response = << >>
        /\ Snapshot = pre

(* C18 as stated: a request object without the field action is closed with *)
(* no status sent.                                                         *)
C18_MissingActionGetsNoStatus ==
    (pc = "Closed" /\ request.kind = "object" /\ ~request.has_action) =>
        response = << >>

(* C18: a request object without the field action reaches no device        *)
(* method, changes no state, is answered with exactly the status "error",  *)
(* and is closed.                                                          *)
C18_MissingActionAnsweredError ==
    (request.kind = "object" /\ ~request.has_action) =>
        /\ invoked = NoCall
        /\ Snapshot = pre
        /\ pc \in {"Responding", "Closed"}
        /\ pc = "Responding" => response = << >> /\ success = "false"
        /\ pc = "Closed" => response = << "error" >> /\ open_conns = 0

\* a request without action, closed after the status "error"
C18_Witness ==
    /\ pc = "Closed"
    /\ request.kind = "object"
    /\ ~request.has_action
    /\ response = << "error" >>

(* C19: on a connection whose request is a command object nothing is sent  *)
(* while the command is processed, and when the connection is closed       *)
(* exactly one status has been sent, with every step of the dispatched     *)
(* method executed: "success" if the interpreter dispatched the command to *)
(* a device method, "error" if it did not.                                 *)
C19_OneReplyAfterProcessing ==
    request.kind = "object" =>
        /\ pc \in {"Processing", "Responding"} => response = << >>
        /\ pc \in {"Processing", "Responding", "Closed"}
        /\ pc = "Closed" =>
               /\ Len(response) = 1
               /\ todo = << >>
               /\ invoked # NoCall => Steps(op_log) = Steps(Program(invoked))
               /\ invoked # NoCall => response[1] = "success"
               /\ invoked = NoCall => response[1] = "error"

\* a switch command answered once, "success", after its five steps
C19_Witness ==
    /\ pc = "Closed"
    /\ request.kind = "object"
    /\ invoked.dev = "switch"
    /\ Len(op_log) = 5
    /\ response = << "success" >>

(* C20: with clients connecting at any moment, at most one connection is   *)
(* accepted and not yet closed: one exactly while the server is between    *)
(* Accepted and Closed, none when it is closed or listening, so that       *)
(* accept() is called only after the previous connection was closed.       *)
C20_OneConnectionAtATime ==
    /\ open_conns \in {0, 1}
    /\ open_conns = 1 <=> pc \in {"Accepted", "Reading", "Processing", "Responding"}
    /\ pc \in {"Closed", "Listening"} => open_conns = 0

\* two clients wait while the server pulses a switch for a third
C20_Witness ==
    /\ pc = "Processing"
    /\ invoked.dev = "switch"
    /\ backlog >= 2
    /\ open_conns = 1

-----------------------------------------------------------------------------
\* switch s is between its write of trigger = 1 and its write of trigger = 0
InPulse(s) ==
    /\ pc = "Processing"
    /\ invoked.dev = "switch"
    /\ invoked.id = s
    /\ TriggerRaised(s)
    /\ todo # << >>

(* C22: while a switch is between its write of trigger = 1 and its write   *)
(* of trigger = 0, with clients free to connect, no step accepts a         *)
(* connection or closes one, no step starts another command, and the only  *)
(* steps that touch the devices are the remaining steps of that one        *)
(* method, on that switch's own pins.                                      *)
C22_NothingElseDuringPulse ==
    [][\A s \in SwitchIds : InPulse(s) =>
          /\ open_conns' = open_conns
          /\ backlog' >= backlog
          /\ invoked' = invoked
          /\ request' = request
          /\ pc' \in {"Processing", "Responding"}
          /\ current_speed' = current_speed
          /\ \A p \in Pins \ SwitchPins(s) :
                 level'[p] = level[p] /\ duty'[p] = duty[p]
          /\ Snapshot' # Snapshot =>
                 /\ todo' = Tail(todo)
                 /\ Steps(op_log' \o todo') = Steps(PositionThenPulse(s, 0, 0))]_vars

\* a client is waiting while switch 1 holds its trigger high
C22_Witness ==
    /\ InPulse(1)
    /\ level[trigger_pin(1)] = 1
    /\ backlog >= 1
    /\ open_conns = 1

-----------------------------------------------------------------------------
\* a northbound or southbound call on track t has been entered
DirectionCall(t) ==
    /\ invoked.dev = "track"
    /\ invoked.id = t
    /\ invoked.op \in {"northbound", "southbound"}

(* C27: started with every pin low, after every single pin write of        *)
(* northbound() and southbound(), not only after the last, nb_pin(t) and   *)
(* sb_pin(t) of the track are not both 1.                                  *)
C27_NeverBothDuringDirectionChange ==
    \A t \in TrackIds :
        DirectionCall(t) => ~(level[nb_pin(t)] = 1 /\ level[sb_pin(t)] = 1)

\* no switch method is executing
NoSwitchOperation == ~(pc = "Processing" /\ invoked.dev = "switch")

\* nothing drives the pin: latch low and no PWM
Deenergized(p) == level[p] = 0 /\ duty[p] = 0

(* C28: started with every pin low, in every state where no switch         *)
(* operation is executing the trigger pin of every switch is de-energized: *)
(* level 0 and PWM duty 0.                                                 *)
C28_TriggersDeenergized ==
    NoSwitchOperation => \A s \in SwitchIds : Deenergized(trigger_pin(s))

(* C29: between commands, for every track t, current_speed(t) equals the   *)
(* PWM duty in effect on speed_pin(t).                                     *)
C29_CurrentSpeedMirrorsDuty ==
    pc # "Processing" =>
        \A t \in TrackIds : current_speed[t] = duty[speed_pin(t)]

(* C30: in every reachable state current_speed(t) of every track is an     *)
(* integer in 0..255, whatever speeds the commands carried.                *)
C30_CurrentSpeedInRange ==
    \A t \in TrackIds : current_speed[t] \in MIN_SPEED..MAX_SPEED

\* set_speed(256) has returned on track 2, which keeps its speed of 255
C30_Witness ==
    /\ pc = "Closed"
    /\ invoked = Call("track", 2, "set_speed", MAX_SPEED + 1)
    /\ pre.current_speed[2] = MAX_SPEED
    /\ current_speed[2] = MAX_SPEED

-----------------------------------------------------------------------------
\* the interpreter accepts the request of the current connection
Acceptable == ProcessCommand(request).ok

\* nothing of a connection is left
ConnectionStateCleared ==
    /\ request = NoRequest
    /\ invoked = NoCall
    /\ todo = << >>
    /\ op_log = << >>
    /\ success = "none"
    /\ response = << >>
    /\ fault = "none"
    /\ open_conns = 0

(* C21: a failure of accept() or send() leaves the server in its loop;     *)
(* whenever the server listens, nothing of an earlier connection is left   *)
(* and the socket is bound; a connection that failed before its command    *)
(* was dispatched (timeout, no data, undecodable bytes, invalid JSON,      *)
(* rejected command) has changed no device; every connection on which no   *)
(* call raises and whose command the interpreter accepts, after whatever   *)
(* failures, ends with the full effect of the command on the state it      *)
(* found and the one reply "success"; and every closed connection is       *)
(* followed by the server listening again.                                 *)
C21_FailureDoesNotPoison ==
    /\ [](pc = "Listening" => ConnectionStateCleared /\ bound)
    /\ [](pc = "Closed" /\ ~Acceptable => Snapshot = pre)
    /\ []((pc = "Closed" /\ fault = "none" /\ Acceptable) =>
            /\ response = << "success" >>
            /\ invoked = ProcessCommand(request).call
            /\ Snapshot = Run(Program(invoked), pre))
    /\ [][(~faulted /\ faulted') => pc' \in {"Listening", "Closed"}]_vars
    /\ (pc = "Closed" ~> pc = "Listening")

\* after an accept() or send() that raised, switch0_direct has been served
C21_Witness ==
    /\ faulted
    /\ pc = "Closed"
    /\ fault = "none"
    /\ request = Object(SwitchAction("0", DIRECT), Absent)
    /\ op_log = PositionThenPulse(0, 1, 0)
    /\ response = << "success" >>

\* initialize_gpio has failed, or the process has exited with status 1
InitFailure == pc = "InitFailed" \/ exit_status = << 1 >>

(* C25: once initialize_gpio has returned False the port is not bound, no  *)
(* connection is accepted and no command has been received or executed;    *)
(* the only step that follows is the exit, with a status that is not 0;    *)
(* the exit follows, and after it nothing happens.                         *)
C25_InitFailureExitsNonZero ==
    /\ [](InitFailure =>
            /\ ~bound
            /\ open_conns = 0
            /\ backlog = 0
            /\ request = NoRequest
            /\ invoked = NoCall
            /\ op_log = << >>
            /\ Snapshot = [level |-> [p \in Pins |-> 0],
                           duty |-> [p \in Pins |-> 0],
                           current_speed |-> [t \in TrackIds |-> 0]])
    /\ [][pc = "InitFailed" =>
            /\ pc' = "Exited"
            /\ Len(exit_status') = 1
            /\ exit_status'[1] # 0]_vars
    /\ [][pc # "Exited"]_vars
    /\ (pc = "InitFailed" ~> pc = "Exited")

\* the process has exited with status 1, the port never bound
C25_Witness ==
    /\ pc = "Exited"
    /\ exit_status = << 1 >>
    /\ ~bound
    /\ open_conns = 0

\* the states a connection can move to from each state
Forward(state) ==
    CASE state = "Listening"  -> {"Accepted"}
      [] state = "Accepted"   -> {"Reading"}
      [] state = "Reading"    -> {"Processing", "Responding", "Closed"}
      [] state = "Processing" -> {"Responding", "Closed"}
      [] state = "Responding" -> {"Closed"}
      [] state = "Closed"     -> {"Listening"}
      [] OTHER                -> {}

ConnectionStates ==
    {"Listening", "Accepted", "Reading", "Processing", "Responding", "Closed"}

(* C26: with calls that can raise, every change of the connection's state  *)
(* is one of Listening -> Accepted -> Reading -> Processing -> Responding  *)
(* -> Closed, a skip forward from Reading or Processing, or the return     *)
(* from Closed to Listening for the next connection; a closed connection   *)
(* has its socket closed; and every accepted connection reaches Closed.    *)
C26_ForwardOnlyAndClosed ==
    /\ [][(pc \in ConnectionStates /\ pc' # pc) => pc' \in Forward(pc)]_vars
    /\ [](pc = "Closed" => open_conns = 0)
    /\ (pc = "Accepted" ~> pc = "Closed")

\* a connection closed after its command hit a GPIO call that raised
C26_Witness ==
    /\ pc = "Closed"
    /\ fault = "gpio"
    /\ response = << "error" >>
    /\ open_conns = 0

-----------------------------------------------------------------------------
\* the result of the last send_command of the front end
LastResult == client.results[Len(client.results)]

\* no response in time, or a response that does not decode
SilentOrUndecodable ==
    {"recv_timeout", "closed_no_reply", "reply_not_utf8", "reply_not_json"}

\* a decoded reply whose status is not "success", or connect / send raising
RefusedOrUnsent ==
    {"status_error", "reply_no_status", "reply_not_object", "connect_raises",
     "send_raises"}

(* C23: in both front ends send_command reports success when the request   *)
(* was sent and no response arrives in time, the server closes without a   *)
(* reply, or the response does not decode; it reports failure only for a   *)
(* decoded reply whose status is not "success" or when connecting or       *)
(* sending raises.                                                         *)
C23_SilenceCountsAsSuccess ==
    (client.issued # << >> /\ client.outcome # "none") =>
        /\ client.outcome \in SilentOrUndecodable => LastResult
        /\ ~LastResult => client.outcome \in RefusedOrUnsent

(* C24: a finished group operation of either front end has issued exactly  *)
(* one command to each of the TRACK_COUNT tracks, in the order of the      *)
(* track ids, whatever became of the earlier commands of the group.        *)
C24_GroupIssuesOneCommandPerTrack ==
    (client.cpc = "Done" /\ client.op \in GroupOps) =>
        client.issued = [k \in 1..TRACK_COUNT |->
                            GroupCommand(client.op, k - 1, client.speed)]

-----------------------------------------------------------------------------
(* C31: when a GPIO call raises inside a command, the step that follows    *)
(* the exception is the return of False to the server loop; the connection *)
(* is then answered with the one status "error" (unless send() raises as   *)
(* well) and closed, and the server listens again.                         *)
C31_GpioFailureAnsweredError ==
    /\ [][(fault # "gpio" /\ fault' = "gpio") =>
            /\ pc = "Processing"
            /\ pc' = "Responding"
            /\ success' = "false"
            /\ response' = << >>
            /\ bound']_vars
    /\ [](fault = "gpio" /\ pc = "Closed" =>
            response = << "error" >> /\ open_conns = 0)
    /\ [](fault = "gpio" => pc \in {"Responding", "Closed"})
    /\ (fault = "gpio" ~> pc = "Listening")

\* switch0_direct answered "error": the write of trigger = 1 raised
C31_Witness ==
    /\ pc = "Closed"
    /\ fault = "gpio"
    /\ invoked = Call("switch", 0, "direct", 0)
    /\ Len(op_log) = 2
    /\ response = << "error" >>

\* the pins of the devices and the status indicator, one set per owner
PinOwners ==
    [dev : {"track"}, id : TrackIds] \cup [dev : {"switch"}, id : SwitchIds]
        \cup {[dev |-> "status", id |-> 0]}

PinsOf(o) ==
    IF o.dev = "track" THEN TrackPins(o.id)
    ELSE IF o.dev = "switch" THEN SwitchPins(o.id)
    ELSE {STATUS_INDICATOR}

(* C32: every pin the server has set up as an output belongs to exactly    *)
(* one owner among the tracks, the switches and the status indicator (the  *)
(* pin sets of the pin map are pairwise disjoint), and the three pins of   *)
(* each device are distinct.                                               *)
C32_PinMapDisjoint ==
    /\ \A p \in DOMAIN level :
         Cardinality({o \in PinOwners : p \in PinsOf(o)}) = 1
    /\ \A t \in TrackIds : Cardinality(TrackPins(t)) = 3
    /\ \A s \in SwitchIds : Cardinality(SwitchPins(s)) = 3

(* C33: in every state, between the pin writes of direct() and diverge()   *)
(* included, in which the trigger pin of a switch is at 1, exactly one of  *)
(* its direct and diverge pins is at 1.                                    *)
C33_OnePositionWhileTriggered ==
    \A s \in SwitchIds :
        level[trigger_pin(s)] = 1 =>
            level[direct_pin(s)] + level[diverge_pin(s)] = 1

\* switch 0, which was in the diverge position, is being pulsed to direct
C33_Witness ==
    /\ InPulse(0)
    /\ invoked.op = "direct"
    /\ pre.level[diverge_pin(0)] = 1
    /\ pre.level[direct_pin(0)] = 0
    /\ level[trigger_pin(0)] = 1
    /\ level[direct_pin(0)] = 1
    /\ level[diverge_pin(0)] = 0

(* C34: when the loop ends after a successful initialization, by an       *)
(* interrupt (also in the middle of a command) or by a failure to set up  *)
(* the server socket, cleanup runs to its end and the process exits with  *)
(* every track at nb = 0, sb = 0, PWM duty 0 and current_speed 0.         *)
TracksOff ==
    \A t \in TrackIds :
        /\ level[nb_pin(t)] = 0
        /\ level[sb_pin(t)] = 0
        /\ duty[speed_pin(t)] = 0
        /\ current_speed[t] = 0

C34_CleanupStopsTracks ==
    /\ [](pc \in {"Cleanup", "CleanupMain"} /\ todo = << >> => TracksOff)
    /\ [](pc = "Exited" => exit_status = << 0 >> /\ TracksOff /\ ~bound
                              /\ open_conns = 0)
    /\ [][(pc \in LoopStates \cup {"Initialized"} /\ pc' \notin LoopStates)
             => (pc' = "Cleanup" /\ todo' = CleanupProgram)]_vars
    /\ (pc = "Cleanup" ~> (pc = "Exited" /\ TracksOff))

\* track2_speed 255 interrupted between the assignment of current_speed
\* and the PWM call, and the process has exited
C34_Witness ==
    /\ pc = "Exited"
    /\ invoked = Call("track", 2, "set_speed", MAX_SPEED)
    /\ Len(op_log) = 1
    /\ success = "none"
    /\ TracksOff

\* every thread the slider started has sent its request and has its reply
AllRepliesIn ==
    /\ client.cpc = "Slider"
    /\ client.threads = {}
    /\ backlog = 0
    /\ open_conns = 0

(* C35: the speed changes one slider issues in succession are served in   *)
(* the order they were issued, and once every reply is in, current_speed  *)
(* of the track on the server is the last speed issued.                   *)
C35_LastSpeedIssuedWins ==
    /\ \A i, j \in 1..Len(client.queue) :
         i < j => client.queue[i] < client.queue[j]
    /\ AllRepliesIn => current_speed[SliderTrack] = client.speed

====
